---- MODULE Spec2Model ----
(***************************************************************************)
(* Model of etl_connector.py: the ThreatFox ETL job.  run() calls extract, *)
(* transform and load_to_mongo in sequence inside one try/except.          *)
(*                                                                         *)
(* JSON values are a tagged union.  Python strings (mapping keys, scalar   *)
(* payloads) are sequences of one-character strings, so that str.replace   *)
(* acts on characters.  A Python dict is the sequence of its items in      *)
(* iteration (insertion) order, with pairwise distinct keys.               *)
(***************************************************************************)
EXTENDS Naturals, Sequences, FiniteSets

VARIABLES
    THREATFOX_JSON_URL, \* module constant read from the environment
    MONGO_URI,          \* module constant read from the environment
    pc,                 \* the statement of run() that executes next
    raw,                \* run()'s local raw
    docs,               \* run()'s local docs
    http,               \* the HTTP GET requests that went out on the network
    clients,            \* number of MongoClient handles opened
    closed,             \* number of MongoClient handles closed
    insertCalls,        \* the argument of every insert_many call issued
    store,              \* the documents held by the target collection
    log,                \* the records emitted through logger
    calls,              \* the stage functions run() has called, in order
    failed,             \* the stage whose exception reached run(), or "none"
    exc,                \* the class of that exception, or NoExc
    runResult,          \* "running", "returned", or "raised" (exception left run())
    loadReturn          \* the value load_to_mongo returned, or NotReturned

vars == <<THREATFOX_JSON_URL, MONGO_URI, pc, raw, docs, http, clients, closed,
          insertCalls, store, log, calls, failed, exc, runResult, loadReturn>>

-----------------------------------------------------------------------------
(* Bounds of the explored inputs *)

\* longest record list under one identifier in the multi-record feeds
MaxRecs == 2
\* most fields of a record in the flat multi-field records
MaxFields == 2
\* deepest nesting of a field value in the nested records
MaxDepth == 2

-----------------------------------------------------------------------------
(* JSON values *)

Scalar(s) == [tag |-> "scalar", s |-> s, seq |-> <<>>]
List(items) == [tag |-> "list", s |-> <<>>, seq |-> items]
Map(fields) == [tag |-> "map", s |-> <<>>, seq |-> fields]
\* an unbound local variable
NoValue == [tag |-> "undef", s |-> <<>>, seq |-> <<>>]
\* a response body that is not JSON
Malformed == [tag |-> "malformed", s |-> <<>>, seq |-> <<>>]

Field(k, v) == [k |-> k, v |-> v]

\* the string keys used by the program and by the explored feeds
K_threatfox_id == <<"t", "h", "r", "e", "a", "t", "f", "o", "x", "_", "i", "d">>
K_ingested_at == <<"i", "n", "g", "e", "s", "t", "e", "d", "_", "a", "t">>
K_threatfox_dot_id == <<"t", "h", "r", "e", "a", "t", "f", "o", "x", ".", "i", "d">>
K_a_dot_b == <<"a", ".", "b">>
K_a_dollar_b == <<"a", "$", "b">>
K_dollar_a_dot_b == <<"$", "a", ".", "b">>
K_dollar_a_dollar_b == <<"$", "a", "$", "b">>

\* the keys of a source record, the keys of nested mappings, the identifiers
RecordKeys == {K_a_dot_b, K_a_dollar_b, K_threatfox_dot_id, K_threatfox_id}
InnerKeys == {K_dollar_a_dot_b}
Ids == {<<"1">>, <<"2">>}
Scalars == {Scalar(<<"x">>), Scalar(<<"y">>)}

SeqsUpTo(S, n) == UNION {[1..k -> S] : k \in 0..n}
DistinctKeys(f) == \A i, j \in DOMAIN f : i # j => f[i].k # f[j].k
\* the item sequences of dicts with at most n items
Items(keys, vals, n) == {f \in SeqsUpTo([k : keys, v : vals], n) : DistinctKeys(f)}

\* the innermost values: scalars, and a mapping with two keys that sanitize
\* to the same key
Leaves == Scalars \cup {Map(<<Field(K_dollar_a_dot_b, Scalar(<<"x">>)),
                               Field(K_dollar_a_dollar_b, Scalar(<<"y">>))>>)}

\* values nested at most d containers deep around a leaf, one child per
\* container
Nest[d \in Nat] ==
    IF d = 0 THEN Leaves
    ELSE Leaves
         \cup {Map(<<Field(k, v)>>) : k \in InnerKeys, v \in Nest[d - 1]}
         \cup {List(<<v>>) : v \in Nest[d - 1]}

\* records with several fields (key collisions), and records with one field
\* holding a deeply nested value
FlatRecords == {Map(f) : f \in Items(RecordKeys, Nest[1], MaxFields)}
DeepRecords == {Map(<<Field(k, v)>>) : k \in RecordKeys, v \in Nest[MaxDepth]}
\* the elements of the record lists of multi-record feeds; one is no mapping
ListElems == {Map(<<>>), Scalar(<<"x">>)}
                 \cup {Map(<<Field(K_a_dot_b, v)>>) : v \in Scalars}
\* what an identifier maps to: a list of records, or a value that is no list
EntryVals == {List(s) : s \in SeqsUpTo(ListElems, MaxRecs)}
                 \cup {Scalar(<<"x">>), Map(<<>>)}

WideFeeds == {Map(f) : f \in Items(Ids, EntryVals, Cardinality(Ids))}
SingleFeeds == {Map(<<Field(i, List(<<r>>))>>) :
                  i \in Ids, r \in FlatRecords \cup DeepRecords}
\* the JSON bodies the endpoint may answer with
Bodies == WideFeeds \cup SingleFeeds \cup {List(<<>>), Scalar(<<"x">>)}

-----------------------------------------------------------------------------
(* Python primitives used by the program *)

\* str.replace(old, new) for one-character old and new
Replace(str, old, new) == [i \in DOMAIN str |-> IF str[i] = old THEN new ELSE str[i]]

HasKey(items, k) == \E i \in DOMAIN items : items[i].k = k

\* d.setdefault(k, v): an existing key keeps its value
DictSetDefault(items, k, v) ==
    IF HasKey(items, k) THEN items ELSE Append(items, Field(k, v))

\* d[k] = v: an existing key keeps its position and takes the new value, a new
\* key is added at the end
DictSet(items, k, v) ==
    IF HasKey(items, k)
    THEN [i \in DOMAIN items |-> IF items[i].k = k THEN Field(k, v) ELSE items[i]]
    ELSE Append(items, Field(k, v))

\* bool(v) of an environment value: None and "" are false
UNSET == "<unset>"
Truthy(v) == v \notin {UNSET, ""}

\* datetime.now(timezone.utc).isoformat(): the clock is not modelled, every
\* reading is this one string
UtcNowIso == <<"2", "0", "2", "5", "-", "0", "1", "-", "0", "1", "T", "0", "0",
               ":", "0", "0", ":", "0", "0", "+", "0", "0", ":", "0", "0">>

NoExc == "none"

\* what a call of load_to_mongo gave back: nothing yet, or a Python value
NotReturned == [kind |-> "not returned", n |-> 0]
PyNone == [kind |-> "None", n |-> 0]
PyInt(n) == [kind |-> "int", n |-> n]

-----------------------------------------------------------------------------
(* sanitize_for_mongo *)

SanitizeKeyDotOnly(k) == Replace(k, ".", "_")

\* new_key = k.replace(".", "_").replace("$", "_")
SanitizeKey(k) == Replace(Replace(k, ".", "_"), "$", "_")

RECURSIVE sanitize_for_mongo(_)
RECURSIVE SanitizeItems(_, _)

\* the loop over obj.items(), new being the dict built so far
SanitizeItems(items, new) ==
    IF items = <<>> THEN new
    ELSE SanitizeItems(Tail(items),
                       DictSet(new, SanitizeKey(Head(items).k),
                               sanitize_for_mongo(Head(items).v)))

sanitize_for_mongo(obj) ==
    IF obj.tag = "map" THEN Map(SanitizeItems(obj.seq, <<>>))
    ELSE IF obj.tag = "list"
         THEN List([i \in DOMAIN obj.seq |-> sanitize_for_mongo(obj.seq[i])])
         ELSE obj

-----------------------------------------------------------------------------
(* transform *)

MakeDocKeepingRecordId(id, record) ==
    Map(DictSet(DictSetDefault(sanitize_for_mongo(record).seq,
                               K_threatfox_id, Scalar(id)),
                K_ingested_at, Scalar(UtcNowIso)))

\* the document made of one record that is a dict
MakeDoc(id, record) ==
    Map(DictSet(DictSet(sanitize_for_mongo(record).seq,
                        K_threatfox_id, Scalar(id)),
                K_ingested_at, Scalar(UtcNowIso)))

PrependDoc(ds, doc) == <<doc>> \o ds

\* docs.append(doc)
AppendDoc(ds, doc) == Append(ds, doc)

\* the loop over the records of one identifier; item assignment on a value
\* that is no dict raises TypeError
RECURSIVE TransformRecords(_, _, _)
TransformRecords(id, records, ds) ==
    IF records = <<>> THEN [exc |-> NoExc, docs |-> ds]
    ELSE IF Head(records).tag # "map" THEN [exc |-> "TypeError", docs |-> <<>>]
    ELSE TransformRecords(id, Tail(records), AppendDoc(ds, MakeDoc(id, Head(records))))

\* the loop over raw_data.items(); a value that is no list is skipped
RECURSIVE TransformItems(_, _)
TransformItems(items, ds) ==
    IF items = <<>> THEN [exc |-> NoExc, docs |-> ds]
    ELSE IF Head(items).v.tag = "list"
    THEN LET r == TransformRecords(Head(items).k, Head(items).v.seq, ds)
         IN  IF r.exc # NoExc THEN r ELSE TransformItems(Tail(items), r.docs)
    ELSE TransformItems(Tail(items), ds)

\* transform(raw_data): the documents, or the exception raised; only a dict
\* has .items()
transform(raw_data) ==
    IF raw_data.tag # "map" THEN [exc |-> "AttributeError", docs |-> <<>>]
    ELSE TransformItems(raw_data.seq, <<>>)

-----------------------------------------------------------------------------
(* logging *)

Entry(level, msg, n, e) == [level |-> level, msg |-> msg, n |-> n, exc |-> e]
Info(msg) == Entry("INFO", msg, 0, NoExc)
\* logger.info(f"Inserted {len(result.inserted_ids)} documents into ...")
Inserted(n) == Entry("INFO", "Inserted documents", n, NoExc)
\* logger.warning("No documents to insert.")
NothingToInsert == Entry("WARNING", "No documents to insert.", 0, NoExc)
\* logger.exception(f"ETL process failed: {e}")
ProcessFailed(e) == Entry("ERROR", "ETL process failed", 0, e)

-----------------------------------------------------------------------------
(* extract *)

FeedUrl == "https://threatfox.example/export/json/recent/"
MongoUrl == "mongodb://localhost:27017"

HasSchemeAlways(url) == TRUE

\* requests.get prepares the request before it sends it: str(None) and ""
\* name no scheme, and the call raises MissingSchema with nothing sent
HasScheme(url) == url \notin {UNSET, ""}

\* what the endpoint may answer
Responses ==
    {[status |-> 200, body |-> b] : b \in Bodies \cup {Malformed}}
        \cup {[status |-> s, body |-> Malformed] : s \in {404, 500}}

\* resp.raise_for_status() and resp.json()
ResponseResult(r) ==
    IF r.status >= 400 THEN [exc |-> "HTTPError", raw |-> NoValue, sent |-> TRUE]
    ELSE IF r.body = Malformed
         THEN [exc |-> "JSONDecodeError", raw |-> NoValue, sent |-> TRUE]
         ELSE [exc |-> NoExc, raw |-> r.body, sent |-> TRUE]

\* the outcomes of extract(url): the value returned or the exception raised,
\* and whether a GET went out
ExtractResults(url) ==
    IF ~HasScheme(url)
    THEN {[exc |-> "MissingSchema", raw |-> NoValue, sent |-> FALSE]}
    ELSE {[exc |-> e, raw |-> NoValue, sent |-> TRUE] : e \in {"ConnectionError", "Timeout"}}
             \cup {ResponseResult(r) : r \in Responses}

-----------------------------------------------------------------------------
(* load_to_mongo *)

InsertOneByOne(ds) == [i \in DOMAIN ds |-> <<ds[i]>>]

\* the insert_many calls made for a non-empty docs: one, with all of docs
InsertBatches(ds) == <<ds>>

LoadResult(e, opened, batches, inserted, logged, ret) ==
    [exc |-> e, opened |-> opened, batches |-> batches, inserted |-> inserted,
     logged |-> logged, ret |-> ret]

\* the outcomes of load_to_mongo(ds).  A failing insert_many raises
\* ServerSelectionTimeoutError with nothing written, or BulkWriteError with
\* the documents before the offending one written.
LoadResults(uri, ds) ==
    IF ~Truthy(uri)
    THEN {LoadResult("RuntimeError", 0, <<>>, <<>>, <<>>, NotReturned)}
    ELSE IF ds # <<>>
    THEN {LoadResult(NoExc, 1, InsertBatches(ds), ds,
                     [i \in DOMAIN InsertBatches(ds) |-> Inserted(Len(InsertBatches(ds)[i]))],
                     PyNone)}
         \cup {LoadResult("ServerSelectionTimeoutError", 1, <<Head(InsertBatches(ds))>>,
                          <<>>, <<>>, NotReturned)}
         \cup {LoadResult("BulkWriteError", 1, <<Head(InsertBatches(ds))>>,
                          SubSeq(ds, 1, n), <<>>, NotReturned) :
                   n \in 0..(Len(Head(InsertBatches(ds))) - 1)}
    ELSE {LoadResult(NoExc, 1, <<>>, <<>>, <<NothingToInsert>>, PyNone)}

-----------------------------------------------------------------------------
(* run *)

\* every exception a stage raises is a subclass of Exception
StageExceptions ==
    {"MissingSchema", "ConnectionError", "Timeout", "HTTPError", "JSONDecodeError",
     "AttributeError", "TypeError", "RuntimeError", "ServerSelectionTimeoutError",
     "BulkWriteError"}
RequestsExceptions ==
    {"MissingSchema", "ConnectionError", "Timeout", "HTTPError", "JSONDecodeError"}

CatchesRequestsOnly(e) == e \in RequestsExceptions

\* except Exception as e
Catches(e) == e \in StageExceptions

Successor(stage) ==
    CASE stage = "extract" -> "transform"
      [] stage = "transform" -> "load_to_mongo"
      [] OTHER -> "done"

AfterStageContinue(stage, e) == Successor(stage)

\* where run() goes after a stage: an exception leaves the try block
AfterStage(stage, e) == IF e # NoExc THEN "done" ELSE Successor(stage)

\* the end of a stage call in run(): the next statement, the except clause,
\* the last statement of the try block
Finish(stage, e, logged) ==
    /\ calls' = Append(calls, stage)
    /\ failed' = IF e # NoExc THEN stage ELSE failed
    /\ exc' = IF e # NoExc THEN e ELSE exc
    /\ pc' = AfterStage(stage, e)
    /\ log' = log \o logged
                  \o (IF e # NoExc
                      THEN IF Catches(e) THEN <<ProcessFailed(e)>> ELSE <<>>
                      ELSE IF Successor(stage) = "done"
                           THEN <<Info("ETL process completed successfully.")>>
                           ELSE <<>>)
    /\ runResult' = IF AfterStage(stage, e) # "done" THEN "running"
                    ELSE IF e = NoExc \/ Catches(e) THEN "returned" ELSE "raised"

Init ==
    /\ THREATFOX_JSON_URL \in {UNSET, "", FeedUrl}
    /\ MONGO_URI \in {UNSET, "", MongoUrl}
    /\ pc = "extract"
    /\ raw = NoValue
    /\ docs = <<>>
    /\ http = <<>>
    /\ clients = 0
    /\ closed = 0
    /\ insertCalls = <<>>
    /\ store = <<>>
    /\ log = <<>>
    /\ calls = <<>>
    /\ failed = "none"
    /\ exc = NoExc
    /\ runResult = "running"
    /\ loadReturn = NotReturned

\* raw = extract(THREATFOX_JSON_URL)
Extract ==
    /\ pc = "extract"
    /\ \E r \in ExtractResults(THREATFOX_JSON_URL) :
          /\ http' = IF r.sent THEN Append(http, THREATFOX_JSON_URL) ELSE http
          /\ raw' = r.raw
          /\ Finish("extract", r.exc, <<Info("Extracting data")>>)
    /\ UNCHANGED <<THREATFOX_JSON_URL, MONGO_URI, docs, clients, closed,
                   insertCalls, store, loadReturn>>

\* docs = transform(raw)
Transform ==
    /\ pc = "transform"
    /\ docs' = transform(raw).docs
    /\ Finish("transform", transform(raw).exc, <<Info("Transforming data...")>>)
    /\ UNCHANGED <<THREATFOX_JSON_URL, MONGO_URI, raw, http, clients, closed,
                   insertCalls, store, loadReturn>>

\* load_to_mongo(docs); logger.info("ETL process completed successfully.")
Load ==
    /\ pc = "load_to_mongo"
    /\ \E r \in LoadResults(MONGO_URI, docs) :
          /\ clients' = clients + r.opened
          /\ insertCalls' = insertCalls \o r.batches
          /\ store' = store \o r.inserted
          /\ loadReturn' = r.ret
          /\ Finish("load_to_mongo", r.exc, r.logged)
    /\ UNCHANGED <<THREATFOX_JSON_URL, MONGO_URI, raw, docs, http, closed>>

Next == Extract \/ Transform \/ Load

Spec == Init /\ [][Next]_vars

-----------------------------------------------------------------------------
(* Vocabulary of the properties *)

Called(stage) == \E i \in DOMAIN calls : calls[i] = stage
TransformReturned == Called("transform") /\ failed # "transform"
LoadReturned == Called("load_to_mongo") /\ failed # "load_to_mongo"

Lookup(items, k) == items[CHOOSE i \in DOMAIN items : items[i].k = k].v

\* the (identifier, record) pairs of a feed: the elements of its list-valued
\* entries, identifier by identifier and in list order
RECURSIVE RecordsOfFeed(_)
RecordsOfFeed(items) ==
    IF items = <<>> THEN <<>>
    ELSE (IF Head(items).v.tag = "list"
          THEN [i \in DOMAIN Head(items).v.seq |->
                   [id |-> Head(items).k, rec |-> Head(items).v.seq[i]]]
          ELSE <<>>) \o RecordsOfFeed(Tail(items))

\* a feed as the data model describes it: a mapping whose list elements are
\* all mappings
WellShaped(feed) ==
    /\ feed.tag = "map"
    /\ \A i \in DOMAIN RecordsOfFeed(feed.seq) : RecordsOfFeed(feed.seq)[i].rec.tag = "map"

\* a key the store accepts
KeyLegal(k) == (\A i \in DOMAIN k : k[i] # ".") /\ (k = <<>> \/ k[1] # "$")

RECURSIVE KeysLegal(_)
KeysLegal(v) ==
    IF v.tag = "map"
    THEN \A i \in DOMAIN v.seq : KeyLegal(v.seq[i].k) /\ KeysLegal(v.seq[i].v)
    ELSE IF v.tag = "list" THEN \A i \in DOMAIN v.seq : KeysLegal(v.seq[i])
    ELSE TRUE

\* the rewritten key, stated character by character
Rewritten(k) == [i \in DOMAIN k |-> IF k[i] \in {".", "$"} THEN "_" ELSE k[i]]

\* the last item of o whose key is rewritten to k
LastSource(o, k) ==
    CHOOSE i \in DOMAIN o : /\ Rewritten(o[i].k) = k
                            /\ \A j \in DOMAIN o : Rewritten(o[j].k) = k => j <= i

\* s is o with every key rewritten, a key that several keys are rewritten to
\* being held once with the value of the last of them
RECURSIVE RewrittenLastWins(_, _)
RewrittenLastWins(o, s) ==
    IF o.tag = "map"
    THEN /\ s.tag = "map"
         /\ DistinctKeys(s.seq)
         /\ {s.seq[j].k : j \in DOMAIN s.seq} = {Rewritten(o.seq[i].k) : i \in DOMAIN o.seq}
         /\ \A j \in DOMAIN s.seq :
               RewrittenLastWins(o.seq[LastSource(o.seq, s.seq[j].k)].v, s.seq[j].v)
    ELSE IF o.tag = "list"
    THEN /\ s.tag = "list"
         /\ Len(s.seq) = Len(o.seq)
         /\ \A i \in DOMAIN o.seq : RewrittenLastWins(o.seq[i], s.seq[i])
    ELSE s = o

Injected == {K_threatfox_id, K_ingested_at}
NotInjected(f) == f.k \notin Injected
NotOverwritten(f) == Rewritten(f.k) \notin Injected

\* doc is the sanitized record but for the two keys transform sets itself
SanitizedApartFromInjected(record, doc) ==
    RewrittenLastWins(Map(SelectSeq(record.seq, NotOverwritten)),
                      Map(SelectSeq(doc.seq, NotInjected)))

-----------------------------------------------------------------------------
(* C1 *)

\* C1: whichever stage raises and whatever the exception, run() logs the
\* failure and returns normally; no exception ever leaves run().
C1_RunLogsAndReturns ==
    /\ runResult # "raised"
    /\ failed # "none" =>
          /\ pc = "done"
          /\ runResult = "returned"
          /\ log # <<>>
          /\ log[Len(log)] = ProcessFailed(exc)
          /\ calls[Len(calls)] = failed

C1_Witness ==
    /\ pc = "done"
    /\ failed = "load_to_mongo"
    /\ exc = "BulkWriteError"
    /\ runResult = "returned"

-----------------------------------------------------------------------------
(* C2 *)

\* C2: every document transform returns has the keys threatfox_id and
\* ingested_at, and none of its keys, at any depth, inside nested mappings and
\* inside mappings held in lists, contains "." or starts with "$".
C2_DocumentKeysLegal ==
    \A n \in DOMAIN docs :
        /\ HasKey(docs[n].seq, K_threatfox_id)
        /\ HasKey(docs[n].seq, K_ingested_at)
        /\ KeysLegal(docs[n])

C2_Witness ==
    /\ TransformReturned
    /\ raw = Map(<<Field(<<"1">>, List(<<
                Map(<<Field(K_a_dot_b, List(<<
                    Map(<<Field(K_dollar_a_dot_b, Scalar(<<"x">>))>>)>>))>>)>>))>>)
    /\ docs = << Map(<<Field(<<"a", "_", "b">>, List(<<
                           Map(<<Field(<<"_", "a", "_", "b">>, Scalar(<<"x">>))>>)>>)),
                       Field(K_threatfox_id, Scalar(<<"1">>)),
                       Field(K_ingested_at, Scalar(UtcNowIso))>>) >>

-----------------------------------------------------------------------------
(* C3 *)

-----------------------------------------------------------------------------
(* C4 *)

\* C4: in every document, threatfox_id is the identifier under which the
\* source record appeared, also when the record has its own threatfox_id or
\* threatfox.id key.
C4_ThreatfoxIdIsIdentifier ==
    TransformReturned =>
        \A n \in DOMAIN docs :
            /\ n \in DOMAIN RecordsOfFeed(raw.seq)
            /\ Lookup(docs[n].seq, K_threatfox_id) = Scalar(RecordsOfFeed(raw.seq)[n].id)

C4_Witness ==
    /\ TransformReturned
    /\ raw = Map(<<Field(<<"2">>, List(<<
                Map(<<Field(K_threatfox_id, Scalar(<<"x">>)),
                      Field(K_threatfox_dot_id, Scalar(<<"y">>))>>)>>))>>)
    /\ docs = << Map(<<Field(K_threatfox_id, Scalar(<<"2">>)),
                       Field(K_ingested_at, Scalar(UtcNowIso))>>) >>

-----------------------------------------------------------------------------
(* C5 *)

\* C5: load_to_mongo called with no documents and a configured connection
\* string opens no store client, issues no insert and reports that nothing
\* was inserted.
C5_EmptyLoadTouchesNoStore ==
    (Called("load_to_mongo") /\ docs = <<>> /\ Truthy(MONGO_URI)) =>
        /\ clients = 0
        /\ insertCalls = <<>>
        /\ \E i \in DOMAIN log : log[i] = NothingToInsert

-----------------------------------------------------------------------------
(* C6 *)

LoadSucceededNonEmpty == LoadReturned /\ docs # <<>>

-----------------------------------------------------------------------------
(* C7 *)

\* C7: with the feed URL unset or empty no HTTP GET is ever issued, and the
\* run ends in the error of its first stage.
C7_NoGetWithoutUrl ==
    ~Truthy(THREATFOX_JSON_URL) =>
        /\ http = <<>>
        /\ pc = "done" => (failed = "extract" /\ calls = <<"extract">>)

C7_Witness ==
    /\ THREATFOX_JSON_URL = UNSET
    /\ pc = "done"
    /\ failed = "extract"
    /\ exc = "MissingSchema"

-----------------------------------------------------------------------------
(* C8 *)

\* C8: when the run has ended, every database client handle it opened has
\* been closed.
C8_ClientsClosedAtEnd == pc = "done" => closed = clients

-----------------------------------------------------------------------------
(* C9 *)

StageOrder == <<"extract", "transform", "load_to_mongo">>

\* C9: the stages are called in the order extract, transform, load_to_mongo,
\* each once at most and only after the one before has returned; at most one
\* GET goes out and at most one bulk insert is issued; once a stage raises
\* nothing more is called, and no insert follows a failed extract or
\* transform.
C9_StagesInOrderFailFast ==
    /\ Len(calls) <= Len(StageOrder)
    /\ \A i \in DOMAIN calls : calls[i] = StageOrder[i]
    /\ Len(http) <= 1
    /\ Len(insertCalls) <= 1
    /\ Called("transform") => (Len(http) = 1 /\ raw # NoValue)
    /\ Called("load_to_mongo") => TransformReturned
    /\ failed # "none" => (pc = "done" /\ calls[Len(calls)] = failed)
    /\ failed \in {"extract", "transform"} => (insertCalls = <<>> /\ clients = 0)
    /\ pc # "done" => pc = StageOrder[Len(calls) + 1]

C9_Witness ==
    /\ pc = "done"
    /\ failed = "transform"
    /\ calls = <<"extract", "transform">>
    /\ Len(http) = 1

-----------------------------------------------------------------------------
(* C10 *)

\* C10: when several keys of one mapping sanitize to the same key, the
\* sanitized mapping holds that key once, with the sanitized value of the
\* last of them in iteration order; every other key keeps its own sanitized
\* value.
C10_LastWriteWins ==
    TransformReturned =>
        \A n \in DOMAIN docs :
            /\ n \in DOMAIN RecordsOfFeed(raw.seq)
            /\ SanitizedApartFromInjected(RecordsOfFeed(raw.seq)[n].rec, docs[n])

C10_Witness ==
    /\ TransformReturned
    /\ raw = Map(<<Field(<<"1">>, List(<<
                Map(<<Field(K_a_dot_b, Scalar(<<"x">>)),
                      Field(K_a_dollar_b, Scalar(<<"y">>))>>)>>))>>)
    /\ docs = << Map(<<Field(<<"a", "_", "b">>, Scalar(<<"y">>)),
                       Field(K_threatfox_id, Scalar(<<"1">>)),
                       Field(K_ingested_at, Scalar(UtcNowIso))>>) >>

====
